---- MODULE Spec2Model ----
(***************************************************************************)
(* League standings bump chart (app.py): the scraper of matchday pages,    *)
(* its per-(league, season) cache, the curve builder get_patch and the     *)
(* script's render pass, as a state machine.                               *)
(*                                                                         *)
(* One script run is: StartRun (league and season widgets, the cached      *)
(* call of scrape_standings), ScrapeStep (one iteration of the scraper's   *)
(* while loop, on a cache miss), Render (everything from num_teams down to *)
(* the tick labels).                                                       *)
(***************************************************************************)
EXTENDS Integers, Sequences, FiniteSets, TLC

VARIABLES
    unplayedAt,      \* the site: per (league, season), the first unplayed matchday; 0 = none
    site,            \* the site: per (league, season), the played pages' team links served so far
    fetched,         \* per (league, season), the matchday-page URLs requested, in order
    season_request,  \* the schedule index URL requested by this run's get_season_range
    cache,           \* st.cache of scrape_standings: (league, season) -> DataFrame
    pc,              \* "idle", "scrape" (in scrape_standings' loop), "returned" (its body
                     \* returned), "hit" (st.cache returned the stored table), "done",
                     \* "error" (the run ended with an exception)
    league, season,  \* the sidebar's selection
    week, scraped,   \* scrape_standings' locals: week, and the list named standings
    standings,       \* the script's DataFrame
    num_teams, num_games,
    highlights, colors, subtitle,
    team_names,      \* the draw list
    drawn,           \* per drawn team: its patches, dots and name label
    subtitle_text, highlight_textprops,
    x_labels, y_labels,
    error,           \* the exception that ended the run, "" when none
    p1, p2, color, patch   \* a direct call of get_patch and its result

vars == <<unplayedAt, site, fetched, season_request, cache, pc, league, season,
          week, scraped, standings, num_teams, num_games, highlights, colors,
          subtitle, team_names, drawn, subtitle_text, highlight_textprops,
          x_labels, y_labels, error, p1, p2, color, patch>>

scrapeVars == <<week, scraped>>
siteVars == <<unplayedAt, site, fetched>>
plotVars == <<num_teams, num_games, highlights, colors, subtitle, team_names,
              drawn, subtitle_text, highlight_textprops, x_labels, y_labels>>
patchVars == <<p1, p2, color, patch>>

----------------------------------------------------------------------------
(* Bounds *)

\* The most played matchdays a source with an unplayed matchday has.
MaxPlayed == 2
\* The last matchday page the model lets the scraper request.
MaxWeek == MaxPlayed + 1
\* The largest coordinate of a point handed to get_patch directly.
MaxCoord == 3

----------------------------------------------------------------------------
(* The site and the sidebar's choices *)

None == "None"

league_dict ==
    [l \in {"Premier League", "La Liga"} |->
        IF l = "Premier League" THEN "eng-premier-league" ELSE "esp-primera-division"]

league_options == DOMAIN league_dict

Seasons == {2021}

Keys == league_options \X Seasons

Teams == {"Ajax", "Benfica", "Celtic"}

\* The orders in which a played matchday page lists the teams.
Rankings == { <<"Ajax", "Benfica", "Celtic">>,
              <<"Benfica", "Ajax", "Celtic">>,
              <<"Celtic", "Ajax", "Benfica">> }

\* A played page: no 'news' in the table's first cell, no '-:-' in the text.
PlayedPages == { [news |-> FALSE, dashes |-> FALSE, links |-> r] : r \in Rankings }

UnplayedPages ==
    { pg \in [news : BOOLEAN, dashes : BOOLEAN, links : Rankings \cup {<<>>}] :
        pg.news \/ pg.dashes }

\* What the site serves for a matchday of a (league, season).
Serve(key, w) ==
    IF unplayedAt[key] # 0 /\ w >= unplayedAt[key] THEN UnplayedPages ELSE PlayedPages

----------------------------------------------------------------------------
(* Pure functions *)

get_url(lg, ss, w) ==
    <<"https://www.worldfootball.net/schedule/schedule", league_dict[lg], ss - 1, ss, "spieltag", w>>

season_range_url(lg) == <<"https://www.worldfootball.net/schedule", league_dict[lg]>>

\* line 45: while True
WhileFirstWeeks(w) == w <= 2
WhileTrue(w) == TRUE

\* line 56: week += 1
NextWeekSkips(w) == w + 2
NextWeek(w) == w + 1

\* line 51: the matchday is not played yet
IsUnplayedNewsOnly(page) == page.news
IsUnplayed(page) == page.news \/ page.dashes

\* line 54: the team links of the standings table, in table order
TeamLinksTail(page) == IF page.links = <<>> THEN <<>> ELSE Tail(page.links)
TeamLinks(page) == page.links

RECURSIVE MaxLen(_)
MaxLen(lists) ==
    IF lists = <<>> THEN 0
    ELSE LET m == MaxLen(Tail(lists))
         IN  IF Len(Head(lists)) > m THEN Len(Head(lists)) ELSE m

\* pd.DataFrame(lists).T: one column per list, one row per position, short
\* lists padded with None.  values[r][c] is the cell of row r-1, column c-1.
DataFrameT(lists) ==
    [nrows  |-> MaxLen(lists),
     ncols  |-> Len(lists),
     values |-> [r \in 1..MaxLen(lists) |->
                    [c \in 1..Len(lists) |->
                        IF r <= Len(lists[c]) THEN lists[c][r] ELSE None]]]

EmptyFrame == DataFrameT(<<>>)

\* @st.cache: a call with arguments stored before returns the stored value
CacheHitNever(key) == FALSE
CacheHit(key) == key \in DOMAIN cache

----------------------------------------------------------------------------
(* get_patch *)

\* A point with both coordinates in half-units, so that the halves the
\* midpoints need stay integers: (x, y) is written <<2x, 2y>>.
Half(p) == <<2 * p[1], 2 * p[2]>>

CurveCodes == <<"MOVETO", "CURVE3", "CURVE3", "CURVE3", "CURVE3">>
LineCodes == <<"MOVETO", "LINETO">>

\* The five vertices of both curved branches, in half-units:
\* x1+(x2-x1)/2 is 2*x1+(x2-x1) halves, y1+(y2-y1)/2 is 2*y1+(y2-y1) halves.
CurveVerts(pa, pb) ==
    LET x1 == pa[1]  y1 == pa[2]  x2 == pb[1]  y2 == pb[2]
    IN  << Half(pa),
           <<2 * x1 + (x2 - x1), 2 * y1>>,
           <<2 * x1 + (x2 - x1), 2 * y1 + (y2 - y1)>>,
           <<2 * x1 + (x2 - x1), 2 * y2>>,
           Half(pb) >>

PathPatch(verts, codes, ec) ==
    [verts |-> verts, codes |-> codes, ec |-> ec, fc |-> "none", zorder |-> 5]

get_patch_rise_straight(pa, pb, col) ==
    IF pb[2] > pa[2]
    THEN PathPatch(CurveVerts(pa, pb), CurveCodes, col)
    ELSE PathPatch(<<Half(pa), Half(pb)>>, LineCodes, col)

get_patch(pa, pb, col) ==
    IF pb[2] > pa[2]
    THEN PathPatch(CurveVerts(pa, pb), CurveCodes, col)
    ELSE IF pb[2] < pa[2]
    THEN PathPatch(CurveVerts(pa, pb), CurveCodes, col)
    ELSE PathPatch(<<Half(pa), Half(pb)>>, LineCodes, col)

----------------------------------------------------------------------------
(* The render pass's computations *)

Range(f) == { f[i] : i \in DOMAIN f }

\* standings.iloc[:, -1] and standings.values[:, -1] raise IndexError on a
\* frame without columns.
LastColumnRaises(df) == df.ncols = 0

\* standings.iloc[:, -1].to_list(), standings.values[:, -1]
LastColumn(df) == [r \in 1..df.nrows |-> df.values[r][df.ncols]]

\* The multiselect's possible values: distinct options, in selection order.
Selections(options) ==
    { h \in UNION { [1..n -> Range(options)] : n \in 0..Len(options) } :
        \A i, j \in DOMAIN h : i # j => h[i] # h[j] }

default_colors == <<"#FF0000", "#2EFDF7", "#3BEF1D", "#E64BF7">>

\* lines 180-183, with i counted from 1
PickerDefault(i) == IF i <= Len(default_colors) THEN default_colors[i] ELSE "#ffffff"

\* The colour pickers' possible values: each default, or for the first
\* team the user's own choice.
Picks(n) ==
    { c \in [1..n -> Range(default_colors) \cup {"#ffffff", "#696969"}] :
        \A i \in 1..n : c[i] = PickerDefault(i) \/ (i = 1 /\ c[i] = "#696969") }

IndexOf(seq, x) == CHOOSE i \in DOMAIN seq : seq[i] = x /\ \A j \in 1..(i - 1) : seq[j] # x

Remove(seq, i) == [j \in 1..(Len(seq) - 1) |-> IF j < i THEN seq[j] ELSE seq[j + 1]]

\* team_names.append(team_names.pop(team_names.index(team)))
MoveToFront(names, team) == <<team>> \o Remove(names, IndexOf(names, team))
MoveToEnd(names, team) == Append(Remove(names, IndexOf(names, team)), team)

\* lines 190-191
RECURSIVE Reorder(_, _)
Reorder(names, keys) ==
    IF keys = <<>> THEN names
    ELSE Reorder(MoveToEnd(names, Head(keys)), Tail(keys))

\* highlight_colors.get(team_name, 'dimgrey')
ColorOf(hl, cs, team) ==
    IF team \in Range(hl) THEN cs[IndexOf(hl, team)] ELSE "dimgrey"

FontWeight(col) == IF col # "dimgrey" THEN "bold" ELSE None

\* The rows of column c holding the team, top down from row r (1-based).
RECURSIVE RowsOf(_, _, _, _)
RowsOf(df, team, c, r) ==
    IF r > df.nrows THEN <<>>
    ELSE (IF df.values[r][c] = team THEN <<r>> ELSE <<>>) \o RowsOf(df, team, c, r + 1)

\* lines 226-229: the (matchday index, position index) pairs of the team,
\* both counted from 0, sorted by matchday.
RECURSIVE CoordsFrom(_, _, _)
CoordsFrom(df, team, c) ==
    IF c > df.ncols THEN <<>>
    ELSE LET rows == RowsOf(df, team, c, 1)
         IN  [i \in 1..Len(rows) |-> <<c - 1, rows[i] - 1>>] \o CoordsFrom(df, team, c + 1)

Coords(df, team) == CoordsFrom(df, team, 1)

\* lines 232-234
Patches(coords, col) ==
    [i \in 1..(Len(coords) - 1) |-> get_patch(coords[i], coords[i + 1], col)]

\* lines 241-247: the label, x in quarter-units (num_games - 0.25)
LabelFirst(coords, team, col, ngames) ==
    [x4 |-> 4 * ngames - 1, y |-> coords[1][2], s |-> team,
     color |-> col, fontweight |-> FontWeight(col)]
Label(coords, team, col, ngames) ==
    [x4 |-> 4 * ngames - 1, y |-> coords[Len(coords)][2], s |-> team,
     color |-> col, fontweight |-> FontWeight(col)]

\* One pass of the draw loop, lines 221-247, for the team's coords
DrawTeam(coords, hl, cs, team, ngames) ==
    LET col == ColorOf(hl, cs, team)
    IN  [team    |-> team,
         patches |-> Patches(coords, col),
         dots    |-> [i \in 1..Len(coords) |-> [xy |-> coords[i], color |-> col]],
         text    |-> Label(coords, team, col, ngames)]

\* coords[-1] raises IndexError for a team of the draw list found nowhere
DrawRaises(coordsOf) == \E i \in DOMAIN coordsOf : coordsOf[i] = <<>>

RECURSIVE Join(_, _)
Join(sep, strs) ==
    IF strs = <<>> THEN ""
    ELSE IF Len(strs) = 1 THEN strs[1]
    ELSE strs[1] \o sep \o Join(sep, Tail(strs))

\* lines 268-275
SubtitleOxford(teams) ==
    LET hlt == [i \in DOMAIN teams |-> "<" \o teams[i] \o ">"]
        n   == Len(hlt)
    IN  IF n = 1 THEN hlt[1] \o " highlighted."
        ELSE IF n = 2 THEN "Comparison between " \o Join(" and ", hlt) \o "."
        ELSE "Comparison between " \o Join(", ", SubSeq(hlt, 1, n - 1))
                 \o ", and " \o hlt[n] \o "."
SubtitleText(teams) ==
    LET hlt == [i \in DOMAIN teams |-> "<" \o teams[i] \o ">"]
        n   == Len(hlt)
    IN  IF n = 1 THEN hlt[1] \o " highlighted."
        ELSE IF n = 2 THEN "Comparison between " \o Join(" and ", hlt) \o "."
        ELSE "Comparison between " \o Join(", ", SubSeq(hlt, 1, n - 2))
                 \o ", " \o Join(" and ", SubSeq(hlt, n - 1, n)) \o "."

\* lines 277-278
TextProps(cs) == [i \in DOMAIN cs |-> [color |-> cs[i], fontweight |-> "bold"]]

----------------------------------------------------------------------------
(* Actions *)

NoRun ==
    /\ num_teams = 0 /\ num_games = 0
    /\ highlights = <<>> /\ colors = <<>> /\ subtitle = FALSE
    /\ team_names = <<>> /\ drawn = <<>>
    /\ subtitle_text = "" /\ highlight_textprops = <<>>
    /\ x_labels = <<>> /\ y_labels = <<>>
    /\ error = ""

\* A run starts with nothing computed or drawn yet.
ResetRun ==
    /\ num_teams' = 0 /\ num_games' = 0
    /\ highlights' = <<>> /\ colors' = <<>> /\ subtitle' = FALSE
    /\ team_names' = <<>> /\ drawn' = <<>>
    /\ subtitle_text' = "" /\ highlight_textprops' = <<>>
    /\ x_labels' = <<>> /\ y_labels' = <<>>
    /\ error' = ""

\* No patch built yet.
NoPatch == PathPatch(<<>>, <<>>, "")

NoPatchCall ==
    /\ p1 = <<0, 0>> /\ p2 = <<0, 0>> /\ color = "" /\ patch = NoPatch

\* The state before the first script run.
FirstLoad ==
    /\ site = [k \in Keys |-> <<>>]
    /\ fetched = [k \in Keys |-> <<>>]
    /\ season_request = <<>>
    /\ cache = <<>>
    /\ pc = "idle"
    /\ league = "Premier League" /\ season = 2021
    /\ week = 0 /\ scraped = <<>>
    /\ standings = EmptyFrame
    /\ NoRun

Init ==
    /\ unplayedAt \in [Keys -> 0..MaxWeek]
    /\ FirstLoad
    /\ NoPatchCall

\* A script run starts: lines 146-159 up to the call of scrape_standings,
\* which st.cache answers from the cache or lets run.
StartRun(lg, ss) ==
    /\ pc \in {"idle", "done", "error"}
    /\ league' = lg /\ season' = ss
    /\ season_request' = season_range_url(lg)
    /\ ResetRun
    /\ IF CacheHit(<<lg, ss>>)
       THEN /\ standings' = cache[<<lg, ss>>]
            /\ pc' = "hit"
            /\ UNCHANGED scrapeVars
       ELSE /\ week' = 1 /\ scraped' = <<>>
            /\ standings' = EmptyFrame
            /\ pc' = "scrape"
    /\ UNCHANGED <<siteVars, cache, patchVars>>

\* One iteration of scrape_standings' loop, lines 45-56: the page of the
\* current week is requested and parsed; an unplayed page breaks the loop,
\* and the return at line 59 has st.cache store the table.  (The loop's
\* condition is the constant True; were it false the function would return
\* without a request.)
ScrapeStep ==
    /\ pc = "scrape"
    /\ week <= MaxWeek
    /\ \E page \in Serve(<<league, season>>, week) :
        /\ fetched' = IF ~WhileTrue(week)
                       THEN fetched
                       ELSE [fetched EXCEPT ![<<league, season>>] =
                                Append(@, get_url(league, season, week))]
        /\ IF IsUnplayed(page) \/ ~WhileTrue(week)
           THEN /\ cache' = (<<league, season>> :> DataFrameT(scraped)) @@ cache
                /\ standings' = DataFrameT(scraped)
                /\ week' = 0 /\ scraped' = <<>>
                /\ pc' = "returned"
                /\ UNCHANGED site
           ELSE /\ scraped' = Append(scraped, TeamLinks(page))
                /\ week' = NextWeek(week)
                /\ site' = [site EXCEPT ![<<league, season>>] = Append(@, page.links)]
                /\ UNCHANGED <<cache, standings, pc>>
    /\ UNCHANGED <<unplayedAt, season_request, league, season, plotVars, error,
                   patchVars>>

\* The rest of the script, lines 161-328: the sidebar's plot widgets, the
\* draw loop, the subtitle and the tick labels.  An exception ends the run.
Render ==
    /\ pc \in {"returned", "hit"}
    /\ num_teams' = standings.nrows
    /\ num_games' = standings.ncols
    /\ IF LastColumnRaises(standings)
       THEN /\ pc' = "error"
            /\ error' = "IndexError"
            /\ UNCHANGED <<highlights, colors, subtitle, team_names, drawn,
                           subtitle_text, highlight_textprops, x_labels, y_labels>>
       ELSE \E hl \in Selections(LastColumn(standings)) :
            \E names \in {Reorder(LastColumn(standings), hl)} :
            \E coordsOf \in {[i \in DOMAIN names |-> Coords(standings, names[i])]} :
            \E cs \in Picks(Len(hl)) :
            \E sub \in (IF hl # <<>> THEN BOOLEAN ELSE {FALSE}) :
                  /\ highlights' = hl
                  /\ colors' = cs
                  /\ subtitle' = sub
                  /\ team_names' = names
                  /\ IF DrawRaises(coordsOf)
                     THEN /\ pc' = "error"
                          /\ error' = "IndexError"
                          /\ UNCHANGED <<drawn, subtitle_text, highlight_textprops,
                                         x_labels, y_labels>>
                     ELSE /\ drawn' = [i \in DOMAIN names |->
                                          DrawTeam(coordsOf[i], hl, cs, names[i],
                                                   standings.ncols)]
                          /\ IF sub /\ hl # <<>>
                             THEN /\ subtitle_text' = SubtitleText(hl)
                                  /\ highlight_textprops' = TextProps(cs)
                             ELSE UNCHANGED <<subtitle_text, highlight_textprops>>
                          /\ x_labels' = [i \in 1..standings.ncols |-> i]
                          /\ y_labels' = [i \in 1..standings.nrows |-> i]
                          /\ pc' = "done"
                          /\ error' = ""
    /\ UNCHANGED <<siteVars, season_request, cache, league, season, scrapeVars,
                   standings, patchVars>>

Next ==
    \/ \E lg \in league_options, ss \in Seasons : StartRun(lg, ss)
    \/ ScrapeStep
    \/ Render

Spec == Init /\ [][Next]_vars

\* The loop of scrape_standings runs on while a page is to be fetched: the
\* script is sequential and nothing else is scheduled.
LiveSpec == Spec /\ WF_vars(ScrapeStep)

----------------------------------------------------------------------------
(* get_patch called on its own *)

Points == (0..MaxCoord) \X (0..MaxCoord)

PatchInit ==
    /\ unplayedAt = [k \in Keys |-> 0]
    /\ FirstLoad
    /\ p1 \in Points /\ p2 \in Points
    /\ color \in {"dimgrey", "#FF0000"}
    /\ patch = NoPatch

CallPatch ==
    /\ patch = NoPatch
    /\ patch' = get_patch(p1, p2, color)
    /\ UNCHANGED <<siteVars, season_request, cache, pc, league, season,
                   scrapeVars, standings, plotVars, error, p1, p2, color>>

PatchNext == CallPatch

PatchSpec == PatchInit /\ [][PatchNext]_vars

----------------------------------------------------------------------------
(* Properties *)

ThisKey == <<league, season>>

Column(df, c) == [r \in 1..df.nrows |-> df.values[r][c]]

\* The position index (from 0) of a team at a matchday (from 1).
PositionAt(df, team, m) == (CHOOSE r \in 1..df.nrows : df.values[r][m] = team) - 1

Tag(t) == "<" \o t \o ">"

\* C1: scraping stops at the first unplayed matchday: a source whose
\* matchdays 1..k are played and whose matchday k+1 is unplayed gives a
\* table of exactly k columns, column i holding the team names of matchday
\* i's page in page order.
C1_StopsAtFirstUnplayed ==
    /\ \A k \in DOMAIN cache :
        /\ unplayedAt[k] # 0
        /\ cache[k].ncols = unplayedAt[k] - 1
        /\ Len(site[k]) = cache[k].ncols
        /\ \A i \in 1..cache[k].ncols : Column(cache[k], i) = site[k][i]
    /\ (pc = "returned" => ThisKey \in DOMAIN cache /\ standings = cache[ThisKey])

C1_Witness ==
    /\ pc = "returned"
    /\ unplayedAt[ThisKey] = 3
    /\ standings.ncols = 2
    /\ Column(standings, 1) # Column(standings, 2)

\* C2: when matchday 1 is unplayed the table has 0 columns and the rest of
\* the render pass completes without raising, with nothing drawn.
C2_ZeroMatchdayRenders ==
    (pc \in {"done", "error"} /\ unplayedAt[ThisKey] = 1) =>
        /\ standings.ncols = 0
        /\ pc = "done"
        /\ error = ""
        /\ drawn = <<>>

\* C3: once scrape_standings has returned for a (league, season), its cache
\* entry never changes or disappears, no further matchday page of that key is
\* requested, and every later run with that key works on the stored table.
C3_CacheIdempotent ==
    [][ /\ \A k \in DOMAIN cache :
            /\ k \in DOMAIN cache'
            /\ cache'[k] = cache[k]
            /\ fetched'[k] = fetched[k]
        /\ (pc' \in {"hit", "returned", "done", "error"} =>
                /\ <<league', season'>> \in DOMAIN cache'
                /\ standings' = cache'[<<league', season'>>]) ]_vars

C3_Witness ==
    /\ pc = "hit"
    /\ standings.ncols = 2
    /\ standings = cache[ThisKey]
    /\ Len(fetched[ThisKey]) = 3

\* C4 (as amended): with the subtitle on, one highlighted team A gives
\* "<A> highlighted.", two give "Comparison between <A> and <B>.", three give
\* "Comparison between <A>, <B> and <C>." (no comma before "and"); with the
\* toggle off or nothing highlighted no subtitle is produced.
C4_SubtitleText ==
    pc = "done" =>
        LET h == highlights
            n == Len(highlights)
        IN  /\ (n = 0 => ~subtitle)
            /\ (subtitle /\ n = 1 => subtitle_text = Tag(h[1]) \o " highlighted.")
            /\ (subtitle /\ n = 2 =>
                    subtitle_text = "Comparison between " \o Tag(h[1]) \o " and "
                                        \o Tag(h[2]) \o ".")
            /\ (subtitle /\ n = 3 =>
                    subtitle_text = "Comparison between " \o Tag(h[1]) \o ", "
                                        \o Tag(h[2]) \o " and " \o Tag(h[3]) \o ".")
            /\ (subtitle => highlight_textprops =
                    [i \in 1..n |-> [color |-> colors[i], fontweight |-> "bold"]])
            /\ (~subtitle => subtitle_text = "" /\ highlight_textprops = <<>>)

C4_Witness ==
    /\ pc = "done"
    /\ subtitle
    /\ highlights = <<"Celtic", "Ajax", "Benfica">>
    /\ subtitle_text = "Comparison between <Celtic>, <Ajax> and <Benfica>."

\* C4 (as claimed): three highlighted teams give
\* "Comparison between <A>, <B>, and <C>.", with a comma before "and".
C4_SubtitleTextOxfordComma ==
    pc = "done" =>
        LET h == highlights
            n == Len(highlights)
        IN  /\ (n = 0 => ~subtitle)
            /\ (subtitle /\ n = 1 => subtitle_text = Tag(h[1]) \o " highlighted.")
            /\ (subtitle /\ n = 2 =>
                    subtitle_text = "Comparison between " \o Tag(h[1]) \o " and "
                                        \o Tag(h[2]) \o ".")
            /\ (subtitle /\ n = 3 =>
                    subtitle_text = "Comparison between " \o Tag(h[1]) \o ", "
                                        \o Tag(h[2]) \o ", and " \o Tag(h[3]) \o ".")
            /\ (~subtitle => subtitle_text = "" /\ highlight_textprops = <<>>)

\* C5: a table with at least one matchday, scraped from pages that each list
\* the same teams once, has one row per team and one column per played
\* matchday, every column a permutation of the teams; every drawn team then
\* has exactly one point per matchday.
C5_TableShape ==
    /\ \A k \in DOMAIN cache :
        cache[k].ncols >= 1 =>
            /\ cache[k].nrows = Cardinality(Teams)
            /\ cache[k].ncols = Len(site[k])
            /\ \A c \in 1..cache[k].ncols :
                /\ Range(Column(cache[k], c)) = Teams
                /\ Len(Column(cache[k], c)) = Cardinality(Teams)
    /\ (pc = "done" =>
            /\ num_teams = Cardinality(Teams)
            /\ num_games = standings.ncols
            /\ Len(drawn) = Cardinality(Teams)
            /\ \A i \in DOMAIN drawn :
                /\ Len(drawn[i].dots) = num_games
                /\ \A m \in 1..num_games : drawn[i].dots[m].xy[1] = m - 1)

C5_Witness ==
    /\ pc = "done"
    /\ standings.ncols = 2
    /\ Column(standings, 1) # Column(standings, 2)
    /\ Len(drawn[1].dots) = 2

\* C6: the draw list holds every non-highlighted team before any highlighted
\* one, the non-highlighted in the last matchday's order, the highlighted
\* last in selection order, and is a permutation of the last matchday's
\* teams; the teams are drawn in that order.
C6_DrawOrder ==
    pc = "done" =>
        LET last == Column(standings, standings.ncols)
            n    == Len(last)
            h    == Len(highlights)
            rank(t) == CHOOSE r \in 1..n : last[r] = t
        IN  /\ Len(team_names) = n
            /\ Range(team_names) = Range(last)
            /\ \A i, j \in 1..n : i # j => team_names[i] # team_names[j]
            /\ \A i \in 1..(n - h) : team_names[i] \notin Range(highlights)
            /\ \A j \in 1..h : team_names[n - h + j] = highlights[j]
            /\ \A i, j \in 1..(n - h) :
                i < j => rank(team_names[i]) < rank(team_names[j])
            /\ Len(drawn) = n
            /\ \A i \in 1..n : drawn[i].team = team_names[i]

C6_Witness ==
    /\ pc = "done"
    /\ Len(highlights) = 1
    /\ highlights[1] = Column(standings, standings.ncols)[1]
    /\ team_names[3] = highlights[1]

\* C7: with N >= 1 matchdays every drawn team has N-1 connectors, the j-th
\* from its point at matchday j to its point at matchday j+1, N dots, one per
\* matchday point, and one label at its final position, in its highlight
\* colour or the neutral default, bold exactly when it is highlighted.
C7_TeamDrawing ==
    (pc = "done" /\ standings.ncols >= 1) =>
        \A i \in DOMAIN drawn :
            LET d   == drawn[i]
                N   == standings.ncols
                t   == drawn[i].team
                hl  == t \in Range(highlights)
                col == IF hl THEN colors[CHOOSE j \in DOMAIN highlights : highlights[j] = t]
                             ELSE "dimgrey"
            IN  /\ Len(d.patches) = N - 1
                /\ \A j \in 1..(N - 1) :
                    /\ d.patches[j].verts[1] =
                           <<2 * (j - 1), 2 * PositionAt(standings, t, j)>>
                    /\ d.patches[j].verts[Len(d.patches[j].verts)] =
                           <<2 * j, 2 * PositionAt(standings, t, j + 1)>>
                    /\ d.patches[j].ec = col
                /\ \A j \in 1..(N - 2) :
                    d.patches[j].verts[Len(d.patches[j].verts)] = d.patches[j + 1].verts[1]
                /\ Len(d.dots) = N
                /\ \A m \in 1..N :
                    /\ d.dots[m].xy = <<m - 1, PositionAt(standings, t, m)>>
                    /\ d.dots[m].color = col
                /\ d.text.s = t
                /\ d.text.y = PositionAt(standings, t, N)
                /\ d.text.color = col
                /\ (d.text.fontweight = "bold") <=> hl

C7_Witness ==
    /\ pc = "done"
    /\ standings.ncols = 2
    /\ \E i \in DOMAIN drawn :
        /\ drawn[i].team \in Range(highlights)
        /\ drawn[i].text.color = "#696969"
        /\ drawn[i].text.fontweight = "bold"
        /\ drawn[i].dots[1].xy[2] # drawn[i].dots[2].xy[2]
        /\ Len(drawn[i].patches[1].verts) = 5

\* C8: get_patch gives the straight segment p1 -> p2 when y2 = y1 and
\* otherwise, for y2 > y1 and for y2 < y1 alike, five vertices: p1, three
\* control points at x = x1+(x2-x1)/2 with y = y1, y1+(y2-y1)/2, y2, and p2;
\* the call leaves the application's state as it was.  (Vertices are in
\* half-units: x1+(x2-x1)/2 is x1+x2 halves.)
C8_PatchGeometry ==
    patch # NoPatch =>
        LET x1 == p1[1]  y1 == p1[2]  x2 == p2[1]  y2 == p2[2]
        IN  /\ IF y2 = y1
               THEN /\ patch.verts = << <<2 * x1, 2 * y1>>, <<2 * x2, 2 * y2>> >>
                    /\ patch.codes = <<"MOVETO", "LINETO">>
               ELSE /\ Len(patch.verts) = 5
                    /\ Len(patch.codes) = 5
                    /\ patch.verts[1] = <<2 * x1, 2 * y1>>
                    /\ patch.verts[2] = <<x1 + x2, 2 * y1>>
                    /\ patch.verts[3] = <<x1 + x2, y1 + y2>>
                    /\ patch.verts[4] = <<x1 + x2, 2 * y2>>
                    /\ patch.verts[5] = <<2 * x2, 2 * y2>>
            /\ patch.ec = color
            /\ pc = "idle" /\ DOMAIN cache = {} /\ drawn = <<>>

C8_Witness ==
    /\ p1 = <<1, 3>> /\ p2 = <<2, 0>>
    /\ patch # NoPatch
    /\ patch.verts[3] = <<3, 3>>

\* C9: the matchday pages of a (league, season) are requested in the order
\* 1, 2, 3, ... without gap or repeat, each only after the one before it was
\* found played and its column appended, and none after the first unplayed one.
C9_FetchOrder ==
    \A k \in Keys :
        LET n == Len(fetched[k])
        IN  /\ \A i \in 1..n : fetched[k][i] = get_url(k[1], k[2], i)
            /\ (unplayedAt[k] # 0 => n <= unplayedAt[k])
            /\ (k \in DOMAIN cache => n = cache[k].ncols + 1 /\ Len(site[k]) = n - 1)
            /\ (k \notin DOMAIN cache => Len(site[k]) = n)
            /\ (pc = "scrape" /\ ThisKey = k =>
                    /\ Len(scraped) = n
                    /\ week = n + 1
                    /\ scraped = site[k])

C9_Witness ==
    /\ pc = "scrape"
    /\ week = 3
    /\ Len(fetched[ThisKey]) = 2
    /\ \E k \in DOMAIN cache : Len(fetched[k]) = 2

\* C10: scrape_standings returns exactly when the source has an unplayed
\* matchday: if the first unplayed matchday is k it eventually returns, after
\* exactly k page requests; if every page looks played it never returns.
C10_Termination ==
    /\ [](\A k \in DOMAIN cache : unplayedAt[k] # 0 /\ Len(fetched[k]) = unplayedAt[k])
    /\ (pc = "scrape" /\ unplayedAt[ThisKey] # 0)
          ~> (pc = "returned" /\ Len(fetched[ThisKey]) = unplayedAt[ThisKey])
    /\ [][pc = "scrape" /\ unplayedAt[ThisKey] = 0 => pc' = "scrape"]_vars

C10_Witness ==
    /\ pc = "scrape"
    /\ unplayedAt[ThisKey] = 0
    /\ Len(fetched[ThisKey]) = 3
    /\ \E k \in DOMAIN cache : unplayedAt[k] = 3 /\ Len(fetched[k]) = 3

====
